---- MODULE Spec2Model ----
(***************************************************************************)
(* oxydendrum: a tree of named nodes (src/src/lib.rs) rendered as text     *)
(* with branch connectors, and the command line program (src/src/main.rs)  *)
(* that builds one tree per path argument and prints it.                   *)
(*                                                                         *)
(* A Rust String is modelled as a sequence of one-character strings, so    *)
(* that offsets, lengths and line splitting of the rendered text are       *)
(* computed and not assumed.                                               *)
(***************************************************************************)
EXTENDS Integers, Sequences, FiniteSets

VARIABLES
    pc,        \* where the caller of the library, or main, stands
    call,      \* the constructor call that built tree, with its arguments
    tree,      \* the Node built
    rendered,  \* the String tree was formatted to
    fs,        \* the file system: what is found at each root path
    argv,      \* the path arguments of the program (args[1..])
    argi,      \* main: the index i of the argument the loop is at
    stdout,    \* main: everything printed so far
    status,    \* main: the value main returned, once it has
    results    \* main: what each from_path call so far returned

libvars == <<pc, call, tree, rendered>>
mainvars == <<fs, argv, argi, stdout, status, results>>
vars == <<pc, call, tree, rendered, fs, argv, argi, stdout, status, results>>

----------------------------------------------------------------------------
(* Bounds of the model *)

\* largest number of nodes of a directly constructed tree
MaxNodes == 6

\* largest number of child names handed to flat
MaxFlat == 2

\* largest number of path arguments of the program
MaxArgs == 2

\* largest number of file system objects and failing directory entries
\* under all root paths together
MaxFsNodes == 4

----------------------------------------------------------------------------
(* Text helpers *)

NL == "\n"
SP == " "
\* U+0060, the first character of the Last connector; a TLA+ string cannot
\* hold that character, so it is written by name
GRAVE == "GRAVE"

RECURSIVE Concat(_)
\* the concatenation of a sequence of strings
Concat(ss) == IF ss = <<>> THEN <<>> ELSE Head(ss) \o Concat(Tail(ss))

\* names handed to the constructors
Names == { <<"a">>, <<"b", "c">>, <<"d", NL, "e">> }

\* names used for the nodes of directly constructed trees
TreeNames == { <<"b", "c">>, <<"d", NL, "e">> }

\* the names of the examples in the comment of impl Node
ExampleNames == { <<"n","o","d","e">>, <<"n","o","d","e","1">>, <<"n","o","d","e","2">> }

NoValue == [none |-> TRUE]

----------------------------------------------------------------------------
(* pub enum Indent and its Display *)

Indent == {"Blank", "Uplink", "Split", "Last"}

\* a slip in the Display of Indent: the vertical bar of Uplink left out
IndentToString_NoBar(indent) ==
    CASE indent = "Blank"  -> <<" ", " ", " ">>
      [] indent = "Uplink" -> <<" ", " ", " ">>
      [] indent = "Split"  -> <<"+", "-", "-">>
      [] indent = "Last"   -> <<GRAVE, "-", "-">>

\* impl fmt::Display for Indent
IndentToString(indent) ==
    CASE indent = "Blank"  -> <<" ", " ", " ">>
      [] indent = "Uplink" -> <<"|", " ", " ">>
      [] indent = "Split"  -> <<"+", "-", "-">>
      [] indent = "Last"   -> <<GRAVE, "-", "-">>

----------------------------------------------------------------------------
(* pub struct Node *)

\* Node { name, children }
Node(name, children) == [name |-> name, children |-> children]

\* Node::singleton
singleton(name) == Node(name, <<>>)

\* a slip in Node::flat: the children collected in reverse
flat_Reversed(name, children) ==
    IF children = <<>>
    THEN singleton(name)
    ELSE Node(name, [i \in 1..Len(children) |->
                        singleton(children[Len(children) + 1 - i])])

\* Node::flat
flat(name, children) ==
    IF children = <<>>
    THEN singleton(name)
    ELSE Node(name, [i \in 1..Len(children) |-> singleton(children[i])])

\* a slip in the prefix loop: the space after an indent left out
PrefixText_NoSpace(prefix) ==
    Concat([k \in 1..Len(prefix) |-> IndentToString(prefix[k])])

\* the prefix loop of Node::render: every indent followed by one space
PrefixText(prefix) ==
    Concat([k \in 1..Len(prefix) |-> IndentToString(prefix[k]) \o <<SP>>])

\* a slip in the choice of the connector: Last and Split exchanged
ChildPrefix_Swapped(prefix, is_last, is_last_inner) ==
    LET replaced == IF prefix = <<>>
                    THEN prefix
                    ELSE [prefix EXCEPT ![Len(prefix)] =
                              IF is_last THEN "Blank" ELSE "Uplink"]
        next == IF is_last_inner THEN "Split" ELSE "Last"
    IN  Append(replaced, next)

\* a slip in the child prefix: the connector of the parent is not replaced
ChildPrefix_KeepConnector(prefix, is_last, is_last_inner) ==
    Append(prefix, IF is_last_inner THEN "Last" ELSE "Split")

\* the prefix Node::render hands to a child: the connector of the parent
\* becomes its continuation column, then the child's connector is pushed
ChildPrefix(prefix, is_last, is_last_inner) ==
    LET replaced == IF prefix = <<>>
                    THEN prefix
                    ELSE [prefix EXCEPT ![Len(prefix)] =
                              IF is_last THEN "Blank" ELSE "Uplink"]
        next == IF is_last_inner THEN "Last" ELSE "Split"
    IN  Append(replaced, next)

RECURSIVE render_NoNewline(_, _, _)
\* a slip in Node::render: no newline pushed before a child
render_NoNewline(node, prefix, is_last) ==
    LET n == Len(node.children)
        own == PrefixText(prefix) \o node.name
        sub(i) == render_NoNewline(node.children[i],
                                   ChildPrefix(prefix, is_last, i - 1 = n - 1),
                                   i - 1 = n - 1)
    IN  own \o Concat([i \in 1..n |-> sub(i)])

RECURSIVE render_NewlineAfterName(_, _, _)
\* a slip in Node::render: the newline pushed after every name
render_NewlineAfterName(node, prefix, is_last) ==
    LET n == Len(node.children)
        own == PrefixText(prefix) \o node.name \o <<NL>>
        sub(i) == render_NewlineAfterName(node.children[i],
                                          ChildPrefix(prefix, is_last, i - 1 = n - 1),
                                          i - 1 = n - 1)
    IN  own \o Concat([i \in 1..n |-> sub(i)])

RECURSIVE render(_, _, _)
\* Node::render
render(node, prefix, is_last) ==
    LET n == Len(node.children)
        own == PrefixText(prefix) \o node.name
        sub(i) == <<NL>> \o render(node.children[i],
                                   ChildPrefix(prefix, is_last, i - 1 = n - 1),
                                   i - 1 = n - 1)
    IN  own \o Concat([i \in 1..n |-> sub(i)])

RECURSIVE RenderCalls(_, _, _, _)
\* the calls of Node::render made for the subtree of node, in call order:
\* the position of the node rendered and the prefix and is_last it is given
RenderCalls(node, prefix, is_last, pos) ==
    LET n == Len(node.children)
        sub(i) == RenderCalls(node.children[i],
                              ChildPrefix(prefix, is_last, i - 1 = n - 1),
                              i - 1 = n - 1,
                              Append(pos, i))
    IN  <<[pos |-> pos, prefix |-> prefix, is_last |-> is_last]>>
            \o Concat([i \in 1..n |-> sub(i)])

\* a slip in Display: a newline written after the text
to_string_TrailingNewline(node) == render(node, <<>>, TRUE) \o <<NL>>

\* impl fmt::Display for Node
to_string(node) == render(node, <<>>, TRUE)

----------------------------------------------------------------------------
(* The trees a caller can construct directly *)

RECURSIVE TreesOfSize(_), ForestsOfSize(_)
\* the trees of exactly n nodes with names from TreeNames
TreesOfSize(n) ==
    IF n < 1 THEN {}
    ELSE { Node(nm, cs) : nm \in TreeNames, cs \in ForestsOfSize(n - 1) }

\* the child vectors of exactly m nodes in total
ForestsOfSize(m) ==
    IF m = 0 THEN { <<>> }
    ELSE UNION { { <<t>> \o f : t \in TreesOfSize(k), f \in ForestsOfSize(m - k) }
                 : k \in 1..m }

TreeSet == UNION { TreesOfSize(n) : n \in 1..MaxNodes }

SeqsUpTo(S, n) == UNION { [1..k -> S] : k \in 0..n }

----------------------------------------------------------------------------
(* The library used by a caller: construct a node, then format it *)

Init ==
    /\ pc = "start"
    /\ call = [fn |-> "none"]
    /\ tree = NoValue
    /\ rendered = NoValue
    /\ fs = NoValue
    /\ argv = <<>>
    /\ argi = 1
    /\ stdout = <<>>
    /\ status = NoValue
    /\ results = <<>>

\* a struct literal Node { name, children } of pre-built children
Construct(t) ==
    /\ pc = "start"
    /\ tree' = Node(t.name, t.children)
    /\ call' = [fn |-> "Node", name |-> t.name, children |-> t.children]
    /\ pc' = "built"
    /\ UNCHANGED <<rendered, mainvars>>

Singleton(name) ==
    /\ pc = "start"
    /\ tree' = singleton(name)
    /\ call' = [fn |-> "singleton", name |-> name, children |-> <<>>]
    /\ pc' = "built"
    /\ UNCHANGED <<rendered, mainvars>>

Flat(name, children) ==
    /\ pc = "start"
    /\ tree' = flat(name, children)
    /\ call' = [fn |-> "flat", name |-> name, children |-> children]
    /\ pc' = "built"
    /\ UNCHANGED <<rendered, mainvars>>

Display ==
    /\ pc = "built"
    /\ rendered' = to_string(tree)
    /\ pc' = "rendered"
    /\ UNCHANGED <<call, tree, mainvars>>

Next ==
    \/ \E t \in TreeSet : Construct(t)
    \/ \E name \in Names \cup ExampleNames : Singleton(name)
    \/ \E name \in Names \cup ExampleNames :
         \E children \in SeqsUpTo(Names \cup ExampleNames, MaxFlat) : Flat(name, children)
    \/ Display

Spec == Init /\ [][Next]_vars

----------------------------------------------------------------------------
(* The file system seen by Node::traverse *)

\* the root paths a path argument can name
RootPaths == { <<"p">>, <<"q", "/">> }

Digits == <<"1", "2", "3", "4", "5", "6", "7", "8", "9">>

\* the file name of the k-th entry a directory listing yields
EntryName(k) == <<"e", Digits[k]>>

\* what can be found at a path: nothing, a file, or a directory whose
\* listing either cannot be opened or yields entries, each of which is an
\* error or a named object
Missing == [kind |-> "missing"]
File == [kind |-> "file"]
UnreadableDir == [kind |-> "dir", open |-> "err", entries |-> <<>>]
Dir(entries) == [kind |-> "dir", open |-> "ok", entries |-> entries]
ErrEntry == [res |-> "err"]
OkEntry(name, obj) == [res |-> "ok", name |-> name, obj |-> obj]

RECURSIVE ObjsOfSize(_), EntriesOfSize(_, _)
\* the existing objects made of exactly n objects and failing entries
ObjsOfSize(n) ==
    IF n < 1 THEN {}
    ELSE IF n = 1 THEN { File, UnreadableDir, Dir(<<>>) }
    ELSE { Dir(es) : es \in EntriesOfSize(n - 1, 1) }

\* the listings of exactly m objects and failing entries, the first entry
\* being the k-th of its directory
EntriesOfSize(m, k) ==
    IF m = 0 THEN { <<>> }
    ELSE UNION {
           { <<e>> \o rest :
               e \in (IF s = 1 THEN { ErrEntry } ELSE {})
                        \cup { OkEntry(EntryName(k), o) : o \in ObjsOfSize(s) },
               rest \in EntriesOfSize(m - s, k + 1) }
           : s \in 1..m }

RootObjsOfSize(n) == ObjsOfSize(n) \cup (IF n = 1 THEN { Missing } ELSE {})

RECURSIVE ObjSize(_)
ObjSize(obj) ==
    IF obj.kind # "dir" THEN 1
    ELSE 1 + LET es == obj.entries
                 RECURSIVE Sum(_)
                 Sum(k) == IF k > Len(es) THEN 0
                           ELSE (IF es[k].res = "err" THEN 1 ELSE ObjSize(es[k].obj))
                                + Sum(k + 1)
             IN  Sum(1)

RootObjs == UNION { RootObjsOfSize(n) : n \in 1..MaxFsNodes }

\* the file systems of the model: an object, or nothing, at every root path
FileSystems ==
    { f \in [RootPaths -> RootObjs] :
        ObjSize(f[<<"p">>]) + ObjSize(f[<<"q", "/">>]) <= MaxFsNodes }

----------------------------------------------------------------------------
(* Paths *)

\* Path::join, as DirEntry::path does it: the directory, a separator unless
\* the directory ends in one, the file name
PathJoin(dir, name) ==
    IF dir # <<>> /\ dir[Len(dir)] = "/" THEN dir \o name ELSE dir \o <<"/">> \o name

\* the final component of a path: what follows its last separator, trailing
\* separators dropped
LastComponent(path) ==
    LET RECURSIVE Strip(_)
        Strip(q) == IF q # <<>> /\ q[Len(q)] = "/" THEN Strip(SubSeq(q, 1, Len(q) - 1))
                    ELSE q
        q == Strip(path)
        starts == { k \in 1..Len(q) : q[k] = "/" }
        from == IF starts = {} THEN 1
                ELSE (CHOOSE k \in starts : \A h \in starts : h <= k) + 1
    IN  SubSeq(q, from, Len(q))

\* Path::file_name: None when the path ends in "..", or has no component
file_name(path) ==
    LET c == LastComponent(path)
    IN  IF c = <<>> \/ c = <<".", ".">> THEN NoValue ELSE c

\* Path::display().to_string()
display(path) == path

----------------------------------------------------------------------------
(* Node::traverse and Node::from_path *)

Ok(v) == [ok |-> TRUE, value |-> v]
Err(e) == [ok |-> FALSE, err |-> e]

\* Path::is_dir: false as well when nothing is found at the path
is_dir(obj) == obj.kind = "dir"

\* fs::read_dir
read_dir(path, obj) ==
    IF obj.open = "ok" THEN Ok(obj.entries)
    ELSE Err([op |-> "read_dir", path |-> path])

RECURSIVE traverse(_, _, _), TraverseEntries(_, _, _, _)

RECURSIVE TraverseEntries_Swallow(_, _, _, _)
\* a slip in the loop of Node::traverse: the error of a child's traversal is
\* dropped and the child pushed as it is
TraverseEntries_Swallow(path, entries, k, node) ==
    IF k > Len(entries) THEN Ok(node)
    ELSE IF entries[k].res = "err"
    THEN Err([op |-> "next_entry", path |-> path, index |-> k])
    ELSE LET child_path == PathJoin(path, entries[k].name)
             n == file_name(child_path)
             child_name == IF n = NoValue THEN display(child_path) ELSE n
             r == traverse(child_path, entries[k].obj, singleton(child_name))
             child_node == IF r.ok THEN r.value ELSE singleton(child_name)
         IN  TraverseEntries_Swallow(path, entries, k + 1,
                                     [node EXCEPT !.children = Append(@, child_node)])

\* Node::traverse; obj is what the file system holds at path, value is node
\* with the children pushed
traverse(path, obj, node) ==
    IF is_dir(obj)
    THEN LET children == read_dir(path, obj)
         IN  IF ~children.ok THEN children
             ELSE TraverseEntries(path, children.value, 1, node)
    ELSE Ok(node)

\* the loop of Node::traverse from the k-th entry on
TraverseEntries(path, entries, k, node) ==
    IF k > Len(entries) THEN Ok(node)
    ELSE IF entries[k].res = "err"
    THEN Err([op |-> "next_entry", path |-> path, index |-> k])
    ELSE LET child_path == PathJoin(path, entries[k].name)
             n == file_name(child_path)
             child_name == IF n = NoValue THEN display(child_path) ELSE n
             r == traverse(child_path, entries[k].obj, singleton(child_name))
         IN  IF ~r.ok THEN r
             ELSE TraverseEntries(path, entries, k + 1,
                                  [node EXCEPT !.children = Append(@, r.value)])

\* Node::from_path
from_path(path, files) ==
    traverse(path, files[path], singleton(display(path)))

----------------------------------------------------------------------------
(* main *)

\* args[0]
ProgramName == <<"o", "x">>

\* "usage: {} dir [dir2 ...]"
Usage(name) ==
    <<"u","s","a","g","e",":"," ">> \o name
        \o <<" ","d","i","r"," ","[","d","i","r","2"," ",".",".",".","]">>

\* println!
println(out, text) == out \o text \o <<NL>>

InitMain ==
    /\ pc = "main"
    /\ call = [fn |-> "none"]
    /\ tree = NoValue
    /\ rendered = NoValue
    /\ fs \in FileSystems
    /\ argv \in SeqsUpTo(RootPaths, MaxArgs)
    /\ argi = 1
    /\ stdout = <<>>
    /\ status = NoValue
    /\ results = <<>>

Running == pc = "main" /\ status = NoValue

\* one iteration of the loop: from_path succeeds and the tree is printed
IterPrint ==
    /\ Running
    /\ argi <= Len(argv)
    /\ LET r == from_path(argv[argi], fs)
       IN  /\ r.ok
           /\ tree' = r.value
           /\ rendered' = to_string(r.value)
           /\ stdout' = println(stdout, to_string(r.value))
           /\ results' = Append(results, r)
    /\ argi' = argi + 1
    /\ UNCHANGED <<pc, call, fs, argv, status>>

\* one iteration of the loop: from_path fails and main returns the error
IterFail ==
    /\ Running
    /\ argi <= Len(argv)
    /\ LET r == from_path(argv[argi], fs)
       IN  /\ ~r.ok
           /\ status' = Err(r.err)
           /\ results' = Append(results, r)
    /\ UNCHANGED <<pc, call, tree, rendered, fs, argv, argi, stdout>>

\* the loop is over: Ok(())
Return ==
    /\ Running
    /\ Len(argv) >= 1
    /\ argi > Len(argv)
    /\ status' = Ok(<<>>)
    /\ UNCHANGED <<pc, call, tree, rendered, fs, argv, argi, stdout, results>>

\* no path argument: the usage line, Ok(())
PrintUsage ==
    /\ Running
    /\ Len(argv) = 0
    /\ stdout' = println(stdout, Usage(ProgramName))
    /\ status' = Ok(<<>>)
    /\ UNCHANGED <<pc, call, tree, rendered, fs, argv, argi, results>>

NextMain ==
    \/ IterPrint
    \/ IterFail
    \/ Return
    \/ PrintUsage

SpecMain == InitMain /\ [][NextMain]_vars

----------------------------------------------------------------------------
(* Vocabulary of the properties: positions, lines, expected tokens *)

\* a position is the sequence of child indices leading from the root
RECURSIVE NodeAt(_, _)
NodeAt(node, pos) ==
    IF pos = <<>> THEN node ELSE NodeAt(node.children[Head(pos)], Tail(pos))

RECURSIVE PreOrder(_, _)
\* the positions under node in depth-first pre-order, children in stored order
PreOrder(node, pos) ==
    <<pos>> \o Concat([i \in 1..Len(node.children) |->
                          PreOrder(node.children[i], Append(pos, i))])

Parent(pos) == SubSeq(pos, 1, Len(pos) - 1)

IsLastChild(t, pos) == pos[Len(pos)] = Len(NodeAt(t, Parent(pos)).children)

NodeCount(t) == Len(PreOrder(t, <<>>))

HasNewline(name) == \E k \in 1..Len(name) : name[k] = NL

NewlineFree(t) ==
    LET p == PreOrder(t, <<>>)
    IN  \A k \in 1..Len(p) : ~HasNewline(NodeAt(t, p[k]).name)

RECURSIVE SplitLines(_)
\* the lines of a text: the pieces between newline characters
SplitLines(s) ==
    IF ~HasNewline(s) THEN <<s>>
    ELSE LET k == CHOOSE i \in 1..Len(s) :
                      s[i] = NL /\ \A h \in 1..(i - 1) : s[h] # NL
         IN  <<SubSeq(s, 1, k - 1)>> \o SplitLines(SubSeq(s, k + 1, Len(s)))

RECURSIVE JoinLines(_)
\* lines joined by single newlines, none trailing
JoinLines(ls) ==
    IF ls = <<>> THEN <<>>
    ELSE IF Len(ls) = 1 THEN ls[1]
    ELSE ls[1] \o <<NL>> \o JoinLines(Tail(ls))

\* the glyphs as the specification's section 4.2 lists them
SpecGlyph(token) ==
    IF token = "Blank" THEN <<" ", " ", " ">>
    ELSE IF token = "Uplink" THEN <<"|", " ", " ">>
    ELSE IF token = "Split" THEN <<"+", "-", "-">>
    ELSE <<GRAVE, "-", "-">>

\* the connector of the node at a non-root position
Connector(t, pos) == IF IsLastChild(t, pos) THEN "Last" ELSE "Split"

\* the continuation token of level j < depth on the line of the node at pos
Continuation(t, pos, j) ==
    IF IsLastChild(t, SubSeq(pos, 1, j)) THEN "Blank" ELSE "Uplink"

ExpectedToken(t, pos, j) ==
    IF j = Len(pos) THEN Connector(t, pos) ELSE Continuation(t, pos, j)

ExpectedLine(t, pos) ==
    Concat([j \in 1..Len(pos) |-> SpecGlyph(ExpectedToken(t, pos, j)) \o <<SP>>])
        \o NodeAt(t, pos).name

\* the text before the name on the line of a node
LinePrefix(line, name) == SubSeq(line, 1, Len(line) - Len(name))

\* the three characters of the j-th token of a line
TokenChars(line, j) == SubSeq(line, 4 * (j - 1) + 1, 4 * (j - 1) + 3)

Rendered == pc = "rendered"

\* the rendering finished and the lines of the text are the lines of the nodes
LinesDefined == Rendered /\ NewlineFree(tree)

Pre == PreOrder(tree, <<>>)
Lines == SplitLines(rendered)
Calls == RenderCalls(tree, <<>>, TRUE, <<>>)

----------------------------------------------------------------------------
(* Properties *)

C2_LineCountIsNodeCount ==
    LET lines == Lines
    IN
    LinesDefined => Len(lines) = NodeCount(tree)

C2_Witness ==
    LET pre == Pre
    IN
    /\ LinesDefined
    /\ NodeCount(tree) >= 4
    /\ \E k \in 1..Len(pre) : Len(pre[k]) >= 2

\* C3: the final token of the prefix of every non-root node is Last when the
\* node is the last child of its parent and Split otherwise, both in the prefix
\* handed to render and in the characters of its line; a sole child gets Last.
C3_ConnectorIsLastOrSplit ==
    LET pre == Pre
        lines == Lines
        calls == Calls
        nlfree == NewlineFree(tree)
    IN
    Rendered =>
        \A k \in 2..Len(pre) :
            LET pos == pre[k]
                d == Len(pos)
            IN  /\ calls[k].pos = pos
                /\ Len(calls[k].prefix) = d
                /\ calls[k].prefix[d] = Connector(tree, pos)
                /\ Len(NodeAt(tree, Parent(pos)).children) = 1
                      => calls[k].prefix[d] = "Last"
                /\ nlfree =>
                      /\ Len(lines) = Len(pre)
                      /\ TokenChars(lines[k], d) = SpecGlyph(Connector(tree, pos))

C3_Witness ==
    LET pre == Pre
    IN
    /\ LinesDefined
    /\ \E k \in 1..Len(pre) : Len(NodeAt(tree, pre[k]).children) = 1
    /\ \E k \in 1..Len(pre) : Len(NodeAt(tree, pre[k]).children) >= 2

\* C4: on the line of a node at depth d >= 2, the token of every level
\* j in 1..d-1 is Blank when the ancestor at depth j is the last child of its
\* parent and Uplink otherwise; Split and Last appear in the final position only.
C4_ContinuationFollowsAncestors ==
    LET pre == Pre
        lines == Lines
        calls == Calls
        nlfree == NewlineFree(tree)
    IN
    Rendered =>
        \A k \in 1..Len(pre) :
            LET pos == pre[k]
                d == Len(pos)
            IN  \A j \in 1..(d - 1) :
                    /\ calls[k].pos = pos
                    /\ calls[k].prefix[j] = Continuation(tree, pos, j)
                    /\ calls[k].prefix[j] \notin {"Split", "Last"}
                    /\ nlfree =>
                          /\ Len(lines) = Len(pre)
                          /\ TokenChars(lines[k], j)
                                = SpecGlyph(Continuation(tree, pos, j))
                          /\ TokenChars(lines[k], j)
                                \notin {SpecGlyph("Split"), SpecGlyph("Last")}

C4_Witness ==
    LET pre == Pre
    IN
    /\ LinesDefined
    /\ \E k \in 1..Len(pre) :
          /\ Len(pre[k]) = 3
          /\ ~IsLastChild(tree, SubSeq(pre[k], 1, 1))
          /\ IsLastChild(tree, SubSeq(pre[k], 1, 2))

Leaf(name) == [name |-> name, children |-> <<>>]
NodeOne == [name |-> <<"n","o","d","e">>,
            children |-> << Leaf(<<"n","o","d","e","1">>) >>]
NodeTwo == [name |-> <<"n","o","d","e">>,
            children |-> << Leaf(<<"n","o","d","e","1">>),
                            Leaf(<<"n","o","d","e","2">>) >>]

C7_LeafRendersAsName ==
    /\ (Rendered /\ tree.children = <<>>) => rendered = tree.name
    /\ (Rendered /\ call.fn = "singleton") => rendered = call.name

C7_Witness ==
    Rendered /\ call.fn = "singleton" /\ call.name = <<"b", "c">>

\* C8: flat(name, child_names) has that name and exactly the leaves of
\* child_names as children, in the same order; flat(name, []) is
\* singleton(name) and flat(name, [a, b]) is the node built by hand from the
\* two leaves a and b.
C8_FlatBuildsLeaves ==
    call.fn = "flat" =>
        /\ tree.name = call.name
        /\ Len(tree.children) = Len(call.children)
        /\ \A i \in 1..Len(call.children) : tree.children[i] = Leaf(call.children[i])
        /\ call.children = <<>> => tree = Leaf(call.name)
        /\ Len(call.children) = 2 =>
              tree = [name |-> call.name,
                      children |-> <<Leaf(call.children[1]), Leaf(call.children[2])>>]

C8_Witness ==
    /\ call.fn = "flat"
    /\ Len(call.children) = 2
    /\ call.children[1] # call.children[2]

----------------------------------------------------------------------------
(* Properties of main *)

RECURSIVE HasIoError(_)
\* a directory at or under obj cannot be listed, or its listing yields an error
HasIoError(obj) ==
    /\ obj.kind = "dir"
    /\ \/ obj.open = "err"
       \/ \E k \in 1..Len(obj.entries) :
             \/ obj.entries[k].res = "err"
             \/ obj.entries[k].res = "ok" /\ HasIoError(obj.entries[k].obj)

RECURSIVE FirstIoError(_, _)
\* the error a depth-first walk of obj, entries in listing order, meets first
FirstIoError(path, obj) ==
    IF obj.open = "err" THEN [op |-> "read_dir", path |-> path]
    ELSE LET bad(k) == \/ obj.entries[k].res = "err"
                       \/ HasIoError(obj.entries[k].obj)
             k == CHOOSE h \in 1..Len(obj.entries) :
                      bad(h) /\ \A g \in 1..(h - 1) : ~bad(g)
         IN  IF obj.entries[k].res = "err"
             THEN [op |-> "next_entry", path |-> path, index |-> k]
             ELSE FirstIoError(PathJoin(path, obj.entries[k].name), obj.entries[k].obj)

RECURSIVE FullTree(_, _)
\* the complete tree of an object without errors: one node per object
FullTree(name, obj) ==
    [name |-> name,
     children |-> IF obj.kind # "dir" THEN <<>>
                  ELSE [k \in 1..Len(obj.entries) |->
                           FullTree(obj.entries[k].name, obj.entries[k].obj)]]

\* the text of a tree as C1 states it
ExpectedText(t) ==
    JoinLines([k \in 1..NodeCount(t) |-> ExpectedLine(t, PreOrder(t, <<>>)[k])])

\* what printing the complete trees of the first n arguments leaves on stdout
PrintedTrees(n) ==
    Concat([j \in 1..n |-> ExpectedText(FullTree(argv[j], fs[argv[j]])) \o <<NL>>])

FailingArgs == { k \in 1..Len(argv) : HasIoError(fs[argv[k]]) }

\* the index of the first argument whose traversal hits an I/O error
FirstFailing == CHOOSE k \in FailingArgs : \A h \in FailingArgs : k <= h

Returned == pc = "main" /\ status # NoValue

\* C9: when the traversal of argument k is the first to hit an I/O error, at
\* any depth, main returns that error; the complete trees of the arguments
\* before k have been printed in order, nothing is printed for k, and no
\* later argument is traversed or printed.
C9_FailFast ==
    (pc = "main" /\ FailingArgs # {}) =>
        LET k == FirstFailing
        IN  /\ argi <= k
            /\ Len(results) = (IF status = NoValue THEN argi - 1 ELSE k)
            /\ stdout = PrintedTrees(argi - 1)
            /\ (status = NoValue /\ argi = k) => (ENABLED IterFail /\ ~ENABLED IterPrint)
            /\ status # NoValue =>
                  /\ ~status.ok
                  /\ status.err = FirstIoError(argv[k], fs[argv[k]])
                  /\ argi = k
                  /\ stdout = PrintedTrees(k - 1)

C9_Witness ==
    /\ Returned
    /\ ~status.ok
    /\ argi = 2
    /\ status.err.path # argv[2]
    /\ fs[argv[1]].kind = "dir"
    /\ fs[argv[1]].entries # <<>>

\* C10: from_path of a path that does not exist fails with an I/O error and
\* never returns a node.
C10_MissingPathFails ==
    \A k \in 1..Len(results) :
        fs[argv[k]].kind = "missing" => ~results[k].ok

====
